---- MODULE Spec2Model ----
(***************************************************************************)
(* State-machine model of the /extract route of pdf_service.py: one        *)
(* request, from filename validation to the JSON response, with the OCR    *)
(* thread pool (ThreadPoolExecutor, as_completed) modelled task by task.   *)
(* Texts are TLA+ strings; page indices are 0-based as in the source.      *)
(***************************************************************************)
EXTENDS Integers, Sequences, FiniteSets, TLC

VARIABLES
    file,             \* the upload: [filename, content]
    pc,               \* position of the coordinating flow (extract_pdf)
    fs,               \* temporary artifacts on disk: [pdf, output_dir, images]
    num_pages,        \* len(reader.pages)
    extracted_texts,  \* [0..num_pages-1 -> STRING]
    image_paths,      \* sequence returned by convert_pdf_to_images
    page_to_image,    \* dict page index -> image path
    pages_needing_ocr,\* list of page indices
    ocr_used,         \* bool
    next_submit,      \* position of the submit loop in pages_needing_ocr (1-based)
    futures,          \* sequence of futures, in submission order
    collected,        \* futures already yielded by as_completed
    overtaken,        \* history: futures yielded after a future submitted later
    response,         \* the returned dict / raised HTTPException
    raster_calls,     \* history: number of pdftoppm invocations
    raster_outcome,   \* history: what the pdftoppm invocation did
    ocr_started,      \* history: page indices whose OCR task was started
    writes            \* history: writes to extracted_texts in the OCR phase

vars == << file, pc, fs, num_pages, extracted_texts, image_paths, page_to_image,
           pages_needing_ocr, ocr_used, next_submit, futures, collected,
           overtaken, response, raster_calls, raster_outcome, ocr_started,
           writes >>

----------------------------------------------------------------------------
(* Bounds of the model *)

MaxPages == 3      \* documents have 0..MaxPages pages
MaxImageNo == 2    \* pdftoppm writes files page-1.jpg .. page-MaxImageNo.jpg

(* Program constants *)

MinTextLen == 20   \* len(t.strip()) < 20
max_workers == 4   \* ThreadPoolExecutor(max_workers=4)

----------------------------------------------------------------------------
(* Strings *)

Whitespace == {" ", "\t", "\n", "\r", "\f"}

RECURSIVE lstrip(_)
lstrip(s) ==
    IF Len(s) = 0 THEN s
    ELSE IF SubSeq(s, 1, 1) \in Whitespace THEN lstrip(SubSeq(s, 2, Len(s)))
    ELSE s

RECURSIVE rstrip(_)
rstrip(s) ==
    IF Len(s) = 0 THEN s
    ELSE IF SubSeq(s, Len(s), Len(s)) \in Whitespace THEN rstrip(SubSeq(s, 1, Len(s) - 1))
    ELSE s

\* str.strip()
strip(s) == rstrip(lstrip(s))

\* str.lower(), on the letters that file names of the model use
LowerChar(c) ==
    CASE c = "P" -> "p"
      [] c = "D" -> "d"
      [] c = "F" -> "f"
      [] c = "S" -> "s"
      [] c = "C" -> "c"
      [] c = "A" -> "a"
      [] c = "N" -> "n"
      [] OTHER -> c

RECURSIVE lower(_)
lower(s) ==
    IF Len(s) = 0 THEN s
    ELSE LowerChar(SubSeq(s, 1, 1)) \o lower(SubSeq(s, 2, Len(s)))

\* str.endswith(suffix)
endswith(s, suffix) ==
    /\ Len(s) >= Len(suffix)
    /\ SubSeq(s, Len(s) - Len(suffix) + 1, Len(s)) = suffix

\* position of the last occurrence of the one-character string c in s, 0 if none
rfind(s, c) ==
    LET hits == { i \in 1..Len(s) : SubSeq(s, i, i) = c }
    IN  IF hits = {} THEN 0 ELSE CHOOSE i \in hits : \A j \in hits : j <= i

\* Path(p).stem: the file name without its last suffix
stem(p) ==
    LET dot == rfind(p, ".")
    IN  IF dot > 1 THEN SubSeq(p, 1, dot - 1) ELSE p

\* s.split("-")[-1]
last_field(s) == SubSeq(s, rfind(s, "-") + 1, Len(s))

Digits == << "0", "1", "2", "3", "4", "5", "6", "7", "8", "9" >>

IsDigit(c) == \E d \in 1..10 : Digits[d] = c

DigitValue(c) == (CHOOSE d \in 1..10 : Digits[d] = c) - 1

\* is int(s) defined (no ValueError)
IsInt(s) ==
    /\ Len(s) > 0
    /\ \A i \in 1..Len(s) : IsDigit(SubSeq(s, i, i))

\* int(s) for a string of decimal digits
RECURSIVE int(_)
int(s) ==
    IF Len(s) = 0 THEN 0
    ELSE 10 * int(SubSeq(s, 1, Len(s) - 1)) + DigitValue(SubSeq(s, Len(s), Len(s)))

\* join with a single newline for separator
RECURSIVE join_single_newline(_, _)
join_single_newline(texts, n) ==
    IF n = 0 THEN ""
    ELSE IF n = 1 THEN texts[0]
    ELSE join_single_newline(texts, n - 1) \o "\n" \o texts[n - 1]

\* "\n\n".join(texts) for texts indexed 0..n-1
RECURSIVE join(_, _)
join(texts, n) ==
    IF n = 0 THEN ""
    ELSE IF n = 1 THEN texts[0]
    ELSE join(texts, n - 1) \o "\n\n" \o texts[n - 1]

----------------------------------------------------------------------------
(* Inputs of one request *)

\* the names an upload can carry
Filenames == {"SCAN.PDF", "notes.txt"}

Text19 == "Creatinine 1.4mg/dL"
Text20 == "eGFR 52 mL/min/1.73m"

\* what page.extract_text() does on one page
PageOutcomes ==
    { [kind |-> "raise", text |-> ""],
      [kind |-> "str", text |-> " " \o Text19 \o "\n"],
      [kind |-> "str", text |-> "\n" \o Text20 \o " "] }

\* the uploaded bytes: a container PdfReader cannot open, or a document
Contents ==
    { [readable |-> FALSE, pages |-> << >>] } \cup
    { [readable |-> TRUE, pages |-> ps] :
        ps \in UNION { [1..n -> PageOutcomes] : n \in 0..MaxPages } }

\* what subprocess.run(["pdftoppm", ...], timeout=40, check=True) does:
\* the exception it raises, if any, the page numbers of the files page-N.jpg
\* written, and the other files left in the output directory
RasterOutcomes ==
    { [kind |-> "completed", written |-> w, extra |-> {}] : w \in SUBSET (1..MaxImageNo) } \cup
    { [kind |-> "CalledProcessError", written |-> {}, extra |-> {}],
      [kind |-> "TimeoutExpired", written |-> {}, extra |-> {}],
      [kind |-> "TimeoutExpired", written |-> {1}, extra |-> {}] }

\* what subprocess.run(["tesseract", ...], timeout=timeout_sec, text=True) does
OcrOutcomes ==
    { [kind |-> "TimeoutExpired", returncode |-> 0, stdout |-> "", cause |-> ""],
      [kind |-> "raise", returncode |-> 0, stdout |-> "",
       cause |-> "[Errno 2] No such file or directory: 'tesseract'"],
      [kind |-> "completed", returncode |-> 0, stdout |-> "", cause |-> ""],
      [kind |-> "completed", returncode |-> 0, stdout |-> " \n\f", cause |-> ""],
      [kind |-> "completed", returncode |-> 0, stdout |-> " Hb 9.1 g/dL\n\f", cause |-> ""],
      [kind |-> "completed", returncode |-> 1, stdout |-> "", cause |-> ""] }

NoOutcome == [kind |-> "none", returncode |-> 0, stdout |-> "", cause |-> ""]

NoResponse == [kind |-> "none"]

----------------------------------------------------------------------------
(* Pure parts of the code *)

output_dir == "/tmp/tmpdir"

\* the file pdftoppm writes for page number n
ImagePath(n) == output_dir \o "/page-" \o ToString(n) \o ".jpg"

\* Path(p).stem, the name being computed once
path_stem(p) ==
    CHOOSE st \in { stem(name) : name \in { SubSeq(p, rfind(p, "/") + 1, Len(p)) } } : TRUE

\* the text after the last "-" of the stem, which int() is applied to
number_field(p) ==
    CHOOSE field \in { last_field(st) : st \in { path_stem(p) } } : TRUE

\* sorted(paths, key=lambda p: int(p.stem.split("-")[-1]))
RECURSIVE sorted_by_number(_)
sorted_by_number(paths) ==
    IF paths = {} THEN << >>
    ELSE LET first == CHOOSE p \in paths :
                        \A q \in paths : int(number_field(p)) <= int(number_field(q))
         IN  << first >> \o sorted_by_number(paths \ {first})

\* the files in the output directory after pdftoppm ran
output_files(outcome) ==
    { ImagePath(n) : n \in outcome.written } \cup { output_dir \o "/" \o name : name \in outcome.extra }

\* Path(output_dir).glob("page-*.jpg")
glob_pages(files) ==
    { p \in files :
        LET name == SubSeq(p, rfind(p, "/") + 1, Len(p))
        IN  /\ Len(name) >= 9
            /\ SubSeq(name, 1, 5) = "page-"
            /\ endswith(name, ".jpg") }

\* the sort key int(p.stem.split("-")[-1]) raises ValueError, outside the try block
convert_raises(outcome) ==
    /\ outcome.kind = "completed"
    /\ \E p \in glob_pages(output_files(outcome)) : ~IsInt(number_field(p))

\* convert_pdf_to_images without the early return of its except branch
convert_pdf_to_images_no_return(outcome) ==
    sorted_by_number(glob_pages(output_files(outcome)))

\* the return value of convert_pdf_to_images: [] when subprocess.run raised,
\* else the files matching page-*.jpg, sorted by their number
convert_pdf_to_images(outcome) ==
    IF outcome.kind # "completed" THEN << >>
    ELSE sorted_by_number(glob_pages(output_files(outcome)))

\* pdftoppm run once for each page of the document
pdftoppm_runs_per_page(n) == n

\* one subprocess.run of pdftoppm for the whole document
pdftoppm_runs(n) == 1

\* text = page.extract_text() or ""; text.strip(); "" when it raises
direct_text(page) ==
    IF page.kind = "str" THEN strip(page.text) ELSE ""

\* the extraction loop with the try block around the whole loop: the pages from
\* the first failing one keep their initial ""
extract_until_error(pages) ==
    [i \in 0..(Len(pages) - 1) |->
        IF \E j \in 1..(i + 1) : pages[j].kind = "raise" THEN ""
        ELSE direct_text(pages[i + 1])]

\* the extraction loop: every page is tried, inside its own try block
extract_all(pages) ==
    [i \in 0..(Len(pages) - 1) |-> direct_text(pages[i + 1])]

\* the except clause around PdfReader(pdf_path) swallowing the error
pdf_reader_error_swallowed(content) == FALSE

\* PdfReader(pdf_path) raises
pdf_reader_raises(content) == ~content.readable

\* every page sent to OCR, whatever its text
needs_ocr_always(t) == TRUE

\* the threshold test written with <=
needs_ocr_inclusive(t) == Len(strip(t)) <= MinTextLen

\* len(t.strip()) < 20
needs_ocr(t) == Len(strip(t)) < MinTextLen

\* [i for i, t in enumerate(texts) if len(t.strip()) < 20]
RECURSIVE indices_needing_ocr(_, _)
indices_needing_ocr(texts, n) ==
    IF n = 0 THEN << >>
    ELSE LET rest == indices_needing_ocr(texts, n - 1)
         IN  IF needs_ocr(texts[n - 1]) THEN Append(rest, n - 1) ELSE rest

\* images bound to pages by their position in image_paths
match_images_by_position(paths, k, n) ==
    [i \in { j - 1 : j \in 1..k } \cap 0..(n - 1) |-> paths[i + 1]]

\* the dict built by the loop over image_paths: later entries overwrite earlier ones
RECURSIVE match_images(_, _, _)
match_images(paths, k, n) ==
    IF k = 0 THEN << >>
    ELSE LET before == match_images(paths, k - 1, n)
             page_num == int(number_field(paths[k])) - 1
         IN  IF 0 <= page_num /\ page_num < n
             THEN [i \in (DOMAIN before) \cup {page_num} |->
                     IF i = page_num THEN paths[k] ELSE before[i]]
             ELSE before

\* ocr_image with the TimeoutExpired clause after the generic except clause
ocr_image_timeout_shadowed(outcome) ==
    IF outcome.kind = "completed"
    THEN LET text == strip(outcome.stdout)
         IN  IF text # "" THEN text ELSE "[OCR EMPTY]"
    ELSE "[OCR ERROR] " \o outcome.cause

\* ocr_image testing the untrimmed output for emptiness
ocr_image_empty_before_strip(outcome) ==
    IF outcome.kind = "completed"
    THEN IF outcome.stdout # "" THEN strip(outcome.stdout) ELSE "[OCR EMPTY]"
    ELSE IF outcome.kind = "TimeoutExpired" THEN "[OCR TIMEOUT]"
    ELSE "[OCR ERROR] " \o outcome.cause

\* ocr_image(image_path): the string it returns for an outcome of tesseract
ocr_image(outcome) ==
    IF outcome.kind = "completed"
    THEN LET text == strip(outcome.stdout)
         IN  IF text # "" THEN text ELSE "[OCR EMPTY]"
    ELSE IF outcome.kind = "TimeoutExpired" THEN "[OCR TIMEOUT]"
    ELSE "[OCR ERROR] " \o outcome.cause

\* ocr_used taken from the pages left after the first
ocr_used_flag_off_by_one(pages) == Len(pages) > 1

\* ocr_used = len(pages_needing_ocr) > 0
ocr_used_flag(pages) == Len(pages) > 0

\* the else branch of the submit loop left out
mark_no_image_skipped(texts, page_index) == texts

\* extracted_texts[page_index] = "[NO IMAGE AVAILABLE FOR OCR]"
mark_no_image(texts, page_index) ==
    [texts EXCEPT ![page_index] = "[NO IMAGE AVAILABLE FOR OCR]"]

\* results written in completion order: the k-th result to the k-th submitted page
future_index_by_completion(futs, done, f) == futs[Cardinality(done) + 1].page_index

\* every result written to the page of the first submitted task
future_index_first(futs, done, f) == futs[1].page_index

\* idx = futures[fut]: the page index a future was submitted for
future_index(futs, done, f) == futs[f].page_index

\* the lookup made with the 1-based page number
image_for_page_number(images, page_index) ==
    IF (page_index + 1) \in DOMAIN images THEN images[page_index + 1] ELSE ""

\* img = page_to_image.get(page_index): "" stands for None
image_for(images, page_index) ==
    IF page_index \in DOMAIN images THEN images[page_index] ELSE ""

\* the collecting loop left after the first completed future
as_completed_first_only(futs, done) == done # {}

\* as_completed(futures) has yielded every future
as_completed_exhausted(futs, done) == done = DOMAIN futs

\* a pool that starts a thread for every queued work item
worker_always_available(running) == TRUE

\* the pool has an idle worker or may create one: max_workers=4
worker_available(running) == Cardinality(running) < max_workers

\* the record of one assignment extracted_texts[idx] = ... of the OCR phase:
\* by is the future whose result is written (0: the sentinel of the submit loop),
\* nth counts the writes this slot has received in the phase
write_record(ws, by, idx) ==
    [by |-> by, idx |-> idx, nth |-> Cardinality({ w \in ws : w.idx = idx }) + 1]

----------------------------------------------------------------------------
(* The request *)

Init ==
    /\ file \in [filename : Filenames, content : Contents]
    /\ pc = "validate"
    /\ fs = [pdf |-> FALSE, output_dir |-> FALSE, images |-> {}]
    /\ num_pages = 0
    /\ extracted_texts = << >>
    /\ image_paths = << >>
    /\ page_to_image = << >>
    /\ pages_needing_ocr = << >>
    /\ ocr_used = FALSE
    /\ next_submit = 1
    /\ futures = << >>
    /\ collected = {}
    /\ overtaken = {}
    /\ response = NoResponse
    /\ raster_calls = 0
    /\ raster_outcome = [kind |-> "none", written |-> {}, extra |-> {}]
    /\ ocr_started = {}
    /\ writes = {}

\* if not file.filename.lower().endswith(".pdf"): raise HTTPException(400)
Validate ==
    /\ pc = "validate"
    /\ IF endswith(lower(file.filename), ".pdf")
       THEN /\ pc' = "save"
            /\ UNCHANGED response
       ELSE /\ pc' = "raised"
            /\ response' = [kind |-> "HTTPException", status_code |-> 400,
                            detail |-> "File must be a PDF"]
    /\ UNCHANGED << file, fs, num_pages, extracted_texts, image_paths, page_to_image,
                    pages_needing_ocr, ocr_used, next_submit, futures, collected, overtaken,
                    raster_calls, raster_outcome, ocr_started, writes >>

\* with tempfile.NamedTemporaryFile(delete=False, suffix=".pdf") as tmp: tmp.write(...)
SaveUpload ==
    /\ pc = "save"
    /\ fs' = [fs EXCEPT !.pdf = TRUE]
    /\ pc' = "open"
    /\ UNCHANGED << file, num_pages, extracted_texts, image_paths, page_to_image,
                    pages_needing_ocr, ocr_used, next_submit, futures, collected, overtaken,
                    response, raster_calls, raster_outcome, ocr_started, writes >>

\* reader = PdfReader(pdf_path); num_pages; extracted_texts = [""] * num_pages
OpenPdf ==
    /\ pc = "open"
    /\ IF ~pdf_reader_raises(file.content)
       THEN /\ num_pages' = Len(file.content.pages)
            /\ extracted_texts' = [i \in 0..(Len(file.content.pages) - 1) |-> ""]
            /\ pc' = "extract"
            /\ UNCHANGED response
       ELSE /\ pc' = "raised"
            /\ response' = [kind |-> "HTTPException", status_code |-> 500,
                            detail |-> "PDF read error"]
            /\ UNCHANGED << num_pages, extracted_texts, writes >>
    /\ UNCHANGED << file, fs, image_paths, page_to_image, pages_needing_ocr, ocr_used,
                    next_submit, futures, collected, overtaken, raster_calls, raster_outcome,
                    ocr_started, writes >>

\* 1) the direct text extraction loop over reader.pages
ExtractTexts ==
    /\ pc = "extract"
    /\ extracted_texts' = extract_all(file.content.pages)
    /\ pc' = "rasterize"
    /\ UNCHANGED << file, fs, num_pages, image_paths, page_to_image, pages_needing_ocr,
                    ocr_used, next_submit, futures, collected, overtaken, response, raster_calls,
                    raster_outcome, ocr_started, writes >>

\* convert_pdf_to_images(pdf_path, dpi=200) when pdftoppm does outcome
RunPdftoppm(outcome) ==
    /\ pc = "rasterize"
    /\ raster_outcome' = outcome
    /\ fs' = [fs EXCEPT !.output_dir = TRUE, !.images = output_files(outcome)]
    /\ raster_calls' = raster_calls + pdftoppm_runs(num_pages)
    /\ IF convert_raises(outcome)
       THEN /\ pc' = "raised"
            /\ response' = [kind |-> "Exception", status_code |-> 500,
                            detail |-> "ValueError"]
            /\ UNCHANGED image_paths
       ELSE /\ pc' = "classify"
            /\ image_paths' = convert_pdf_to_images(outcome)
            /\ UNCHANGED response
    /\ UNCHANGED << file, num_pages, extracted_texts, page_to_image, pages_needing_ocr,
                    ocr_used, next_submit, futures, collected, overtaken, ocr_started,
                    writes >>

\* 2) image_paths = convert_pdf_to_images(pdf_path, dpi=200)
ConvertPdfToImages == \E outcome \in RasterOutcomes : RunPdftoppm(outcome)

\* page_to_image, pages_needing_ocr, ocr_used = len(pages_needing_ocr) > 0
MatchAndClassify ==
    /\ pc = "classify"
    /\ page_to_image' = match_images(image_paths, Len(image_paths), num_pages)
    /\ LET needing == indices_needing_ocr(extracted_texts, num_pages)
       IN  /\ pages_needing_ocr' = needing
           /\ ocr_used' = ocr_used_flag(needing)
           /\ pc' = IF ocr_used_flag(needing) THEN "submit" ELSE "respond"
    /\ next_submit' = 1
    /\ UNCHANGED << file, fs, num_pages, extracted_texts, image_paths, futures,
                    collected, overtaken, response, raster_calls, raster_outcome, ocr_started, writes >>

\* one iteration of: for page_index in pages_needing_ocr
Submit ==
    /\ pc = "submit"
    /\ LET page_index == pages_needing_ocr[next_submit]
           img == image_for(page_to_image, page_index)
       IN  IF img # ""
           THEN /\ futures' = Append(futures,
                                 [page_index |-> page_index,
                                  img |-> img,
                                  state |-> "pending",
                                  outcome |-> NoOutcome,
                                  raised |-> FALSE,
                                  result |-> ""])
                /\ UNCHANGED << extracted_texts, writes >>
           ELSE /\ extracted_texts' = mark_no_image(extracted_texts, page_index)
                /\ writes' = writes \cup {write_record(writes, 0, page_index)}
                /\ UNCHANGED futures
    /\ next_submit' = next_submit + 1
    /\ pc' = IF next_submit < Len(pages_needing_ocr) THEN "submit"
             ELSE IF Len(futures') > 0 THEN "collect"
             ELSE "respond"
    /\ UNCHANGED << file, fs, num_pages, image_paths, page_to_image, pages_needing_ocr,
                    ocr_used, collected, overtaken, response, raster_calls, raster_outcome,
                    ocr_started >>

Running == { f \in DOMAIN futures : futures[f].state = "running" }

Pending == { f \in DOMAIN futures : futures[f].state = "pending" }

\* a free worker of the pool takes the oldest queued work item
WorkerStart ==
    /\ Pending # {}
    /\ worker_available(Running)
    /\ LET f == CHOOSE g \in Pending : \A h \in Pending : g <= h
       IN  /\ futures' = [futures EXCEPT ![f].state = "running"]
           /\ ocr_started' = ocr_started \cup {futures[f].page_index}
    /\ UNCHANGED << file, pc, fs, num_pages, extracted_texts, image_paths, page_to_image,
                    pages_needing_ocr, ocr_used, next_submit, collected, overtaken, response,
                    raster_calls, raster_outcome, writes >>

\* the worker's call of ocr_image(img) returns when tesseract does outcome,
\* and the future is set
RunOcr(f, outcome) ==
    /\ futures[f].state = "running"
    /\ futures' = [futures EXCEPT ![f].state = "finished",
                                  ![f].outcome = outcome,
                                  ![f].result = ocr_image(outcome)]
    /\ UNCHANGED << file, pc, fs, num_pages, extracted_texts, image_paths, page_to_image,
                    pages_needing_ocr, ocr_used, next_submit, collected, overtaken, response,
                    raster_calls, raster_outcome, ocr_started, writes >>

WorkerFinish(f) == \E outcome \in OcrOutcomes : RunOcr(f, outcome)

\* one iteration of: for fut in as_completed(futures)
Collect(f) ==
    /\ pc = "collect"
    /\ f \notin collected
    /\ futures[f].state = "finished"
    /\ LET idx == future_index(futures, collected, f)
       IN  /\ extracted_texts' =
                [extracted_texts EXCEPT ![idx] =
                    IF futures[f].raised
                    THEN "[OCR FAILED] " \o futures[f].result
                    ELSE futures[f].result]
           /\ writes' = writes \cup {write_record(writes, f, idx)}
    /\ collected' = collected \cup {f}
    /\ overtaken' = IF \E g \in collected : g > f THEN overtaken \cup {f} ELSE overtaken
    /\ pc' = IF as_completed_exhausted(futures, collected') THEN "respond" ELSE "collect"
    /\ UNCHANGED << file, fs, num_pages, image_paths, page_to_image, pages_needing_ocr,
                    ocr_used, next_submit, futures, response, raster_calls,
                    raster_outcome, ocr_started >>

\* 4) build the response
BuildResponse ==
    /\ pc = "respond"
    /\ response' = [kind |-> "result",
                    status |-> "success",
                    page_count |-> num_pages,
                    ocr_used |-> ocr_used,
                    pages |-> [i \in 1..num_pages |->
                                 [page_number |-> i, text |-> extracted_texts[i - 1]]],
                    full_text |-> join(extracted_texts, num_pages)]
    /\ pc' = "done"
    /\ UNCHANGED << file, fs, num_pages, extracted_texts, image_paths, page_to_image,
                    pages_needing_ocr, ocr_used, next_submit, futures, collected, overtaken,
                    raster_calls, raster_outcome, ocr_started, writes >>

Next ==
    \/ Validate
    \/ SaveUpload
    \/ OpenPdf
    \/ ExtractTexts
    \/ ConvertPdfToImages
    \/ MatchAndClassify
    \/ Submit
    \/ WorkerStart
    \/ \E f \in DOMAIN futures : WorkerFinish(f)
    \/ \E f \in DOMAIN futures : Collect(f)
    \/ BuildResponse

Spec == Init /\ [][Next]_vars

\* the steps of the coordinating flow, which runs until it returns or raises
Flow ==
    \/ Validate
    \/ SaveUpload
    \/ OpenPdf
    \/ ExtractTexts
    \/ ConvertPdfToImages
    \/ MatchAndClassify
    \/ Submit
    \/ \E f \in DOMAIN futures : Collect(f)
    \/ BuildResponse

\* a running call of ocr_image returns: subprocess.run has timeout=timeout_sec
WorkersFinish == \E f \in DOMAIN futures : WorkerFinish(f)

\* the request under scheduling that lets the flow and the pool threads run, with
\* pdftoppm ending within timeout=40 and tesseract within timeout_sec
FairSpec ==
    /\ Spec
    /\ WF_vars(Flow)
    /\ WF_vars(WorkerStart)
    /\ WF_vars(WorkersFinish)

----------------------------------------------------------------------------
(* A scanned document with more pages than the pool has workers *)

PoolPages == max_workers + 1

\* a scan: no page has a usable text layer
ScannedDocument ==
    [readable |-> TRUE,
     pages |-> [i \in 1..PoolPages |-> [kind |-> "str", text |-> " " \o Text19 \o "\n"]]]

\* pdftoppm writes one image per page
AllPagesRasterized ==
    [kind |-> "completed", written |-> 1..PoolPages, extra |-> {}]

\* tesseract recognises the page, or is killed at timeout_sec
PoolOcrOutcomes ==
    { o \in OcrOutcomes :
        \/ o.kind = "TimeoutExpired"
        \/ o.kind = "completed" /\ o.returncode = 0 /\ Len(o.stdout) > 3 }

PoolInit ==
    /\ file = [filename |-> "SCAN.PDF", content |-> ScannedDocument]
    /\ pc = "validate"
    /\ fs = [pdf |-> FALSE, output_dir |-> FALSE, images |-> {}]
    /\ num_pages = 0
    /\ extracted_texts = << >>
    /\ image_paths = << >>
    /\ page_to_image = << >>
    /\ pages_needing_ocr = << >>
    /\ ocr_used = FALSE
    /\ next_submit = 1
    /\ futures = << >>
    /\ collected = {}
    /\ overtaken = {}
    /\ response = NoResponse
    /\ raster_calls = 0
    /\ raster_outcome = [kind |-> "none", written |-> {}, extra |-> {}]
    /\ ocr_started = {}
    /\ writes = {}

PoolNext ==
    \/ Validate
    \/ SaveUpload
    \/ OpenPdf
    \/ ExtractTexts
    \/ RunPdftoppm(AllPagesRasterized)
    \/ MatchAndClassify
    \/ Submit
    \/ WorkerStart
    \/ \E f \in DOMAIN futures : \E outcome \in PoolOcrOutcomes : RunOcr(f, outcome)
    \/ \E f \in DOMAIN futures : Collect(f)
    \/ BuildResponse

PoolSpec == PoolInit /\ [][PoolNext]_vars

PoolFairSpec ==
    /\ PoolSpec
    /\ WF_vars(Flow)
    /\ WF_vars(WorkerStart)
    /\ WF_vars(WorkersFinish)

----------------------------------------------------------------------------
(* The request when pdftoppm may leave an unexpected output layout *)

\* files other than page-N.jpg found in the output directory: one that matches
\* the pattern page-*.jpg without carrying a number, and one that does not match
UnexpectedNames == {"page-x.jpg", "cover.jpg"}

\* pdftoppm exits with status 0 and the output directory holds an unexpected file
UnexpectedLayouts ==
    { [kind |-> "completed", written |-> w, extra |-> {name}] :
        w \in SUBSET (1..MaxImageNo), name \in UnexpectedNames }

LayoutNext ==
    \/ Next
    \/ \E outcome \in UnexpectedLayouts : RunPdftoppm(outcome)

LayoutSpec == Init /\ [][LayoutNext]_vars

----------------------------------------------------------------------------
(* Vocabulary of the properties, stated on the inputs of the request *)

IsWs(s, k) == SubSeq(s, k, k) \in Whitespace

\* s is empty or whitespace only
Blank(s) == \A k \in 1..Len(s) : IsWs(s, k)

\* the number of leading, and of trailing, whitespace characters of a non-blank s
LeadingWs(s) ==
    CHOOSE d \in 0..Len(s) : ~IsWs(s, d + 1) /\ \A e \in 1..d : IsWs(s, e)

TrailingWs(s) ==
    CHOOSE d \in 0..Len(s) : ~IsWs(s, Len(s) - d) /\ \A e \in 0..(d - 1) : IsWs(s, Len(s) - e)

\* the length of s without its leading and trailing whitespace
TrimmedLen(s) == IF Blank(s) THEN 0 ELSE Len(s) - LeadingWs(s) - TrailingWs(s)

\* s without its leading and trailing whitespace
TrimmedText(s) ==
    IF Blank(s) THEN "" ELSE SubSeq(s, LeadingWs(s) + 1, Len(s) - TrailingWs(s))

PageIndices == 0..(Len(file.content.pages) - 1)

\* the direct-extracted text of page i: empty when extraction raised or gave nothing
DirectOf(i) ==
    LET page == file.content.pages[i + 1]
    IN  IF page.kind = "str" THEN TrimmedText(page.text) ELSE ""

Sufficient(i) == Len(DirectOf(i)) >= 20

NeedsOcrPages == { i \in PageIndices : ~Sufficient(i) }

RasterFailed == raster_outcome.kind \in {"CalledProcessError", "TimeoutExpired"}

\* page i has a rasterized image: pdftoppm succeeded and wrote page-(i+1).jpg
HasImage(i) == raster_outcome.kind = "completed" /\ (i + 1) \in raster_outcome.written

TaskOf(i) == CHOOSE f \in DOMAIN futures : futures[f].page_index = i

\* the text the OCR adapter is specified to give for an outcome of the engine
OcrText(outcome) ==
    CASE outcome.kind = "TimeoutExpired" -> "[OCR TIMEOUT]"
      [] outcome.kind = "raise" -> "[OCR ERROR] " \o outcome.cause
      [] outcome.kind = "completed" ->
            IF TrimmedText(outcome.stdout) = "" THEN "[OCR EMPTY]"
            ELSE TrimmedText(outcome.stdout)

\* the final text of page i as a function of the document, the images and the
\* OCR outcome of page i alone
ExpectedText(i) ==
    IF Sufficient(i) THEN DirectOf(i)
    ELSE IF HasImage(i) THEN OcrText(futures[TaskOf(i)].outcome)
    ELSE "[NO IMAGE AVAILABLE FOR OCR]"

StartsWith(s, prefix) ==
    Len(s) >= Len(prefix) /\ SubSeq(s, 1, Len(prefix)) = prefix

\* the texts of a pages list joined by a blank line, first page first
RECURSIVE JoinPages(_)
JoinPages(pages) ==
    IF Len(pages) = 0 THEN ""
    ELSE IF Len(pages) = 1 THEN pages[1].text
    ELSE pages[1].text \o "\n\n" \o JoinPages(Tail(pages))

Done == pc = "done"

----------------------------------------------------------------------------
(* C1: for every opened document the returned pages list has exactly
   page_count entries, entry i carries page_number i+1 and the final text of
   slot i, in ascending order, and full_text is those texts joined in that
   order with a blank-line separator. *)
C1_PagesInOrder ==
    Done =>
        /\ response.kind = "result"
        /\ response.page_count = Len(file.content.pages)
        /\ Len(response.pages) = Len(file.content.pages)
        /\ \A i \in PageIndices :
            /\ response.pages[i + 1].page_number = i + 1
            /\ response.pages[i + 1].text = extracted_texts[i]
        /\ response.full_text = JoinPages(response.pages)

C1_Witness ==
    /\ Done
    /\ Len(response.pages) >= 3
    /\ Cardinality(collected) >= 2
    /\ \E i \in PageIndices : Sufficient(i)

(* C2: when the result is built the final text of every page is set and is
   the page's direct text of trimmed length at least 20, or one of the
   sentinels, or the text OCR returned for that page; a needs-ocr page never
   keeps its short or empty direct text. *)
C2_FinalTextSet ==
    Done =>
        \A i \in PageIndices :
            LET t == response.pages[i + 1].text
            IN  /\ t # ""
                /\ \/ Sufficient(i) /\ t = DirectOf(i)
                   \/ t \in {"[NO IMAGE AVAILABLE FOR OCR]", "[OCR TIMEOUT]", "[OCR EMPTY]"}
                   \/ StartsWith(t, "[OCR ERROR] ")
                   \/ StartsWith(t, "[OCR FAILED] ")
                   \/ \E f \in DOMAIN futures :
                        /\ futures[f].page_index = i
                        /\ futures[f].outcome.kind = "completed"
                        /\ t = TrimmedText(futures[f].outcome.stdout)

C2_Witness ==
    /\ Done
    /\ \E i \in NeedsOcrPages : response.pages[i + 1].text = "[NO IMAGE AVAILABLE FOR OCR]"
    /\ \E i \in NeedsOcrPages : response.pages[i + 1].text = "[OCR EMPTY]"
    /\ \E i \in NeedsOcrPages : DirectOf(i) # ""

(* C3: completion-order independence: the final pages list, full_text and
   ocr_used are a function of the document, the rasterized images and the
   per-page OCR outcomes, whatever the order in which the tasks completed and
   were collected. *)
C3_OrderIndependent ==
    Done =>
        /\ response.pages =
             [k \in 1..Len(file.content.pages) |->
                [page_number |-> k, text |-> ExpectedText(k - 1)]]
        /\ response.full_text =
             JoinPages([k \in 1..Len(file.content.pages) |-> [text |-> ExpectedText(k - 1)]])
        /\ response.ocr_used = (NeedsOcrPages # {})

\* a result built after the tasks were collected against their page order
C3_Witness ==
    /\ Done
    /\ \E f \in overtaken : \E g \in collected :
        /\ g > f
        /\ futures[f].result # futures[g].result

(* C4: if every page has direct text of trimmed length at least 20 then
   ocr_used is false, the rasterization tool is never invoked and no OCR task
   is ever started. *)
C4_NoFallbackWork ==
    (/\ file.content.readable
     /\ Len(file.content.pages) >= 1
     /\ \A i \in PageIndices : Sufficient(i))
    => /\ raster_calls = 0
       /\ ocr_started = {}
       /\ futures = << >>
       /\ (Done => ~response.ocr_used)

(* C5: when a request completes, on every exit path, the temporary artifacts
   it created (the saved PDF, the rasterization output directory and its
   images) no longer exist. *)
C5_ArtifactsReclaimed ==
    pc \in {"done", "raised"} =>
        /\ ~fs.pdf
        /\ ~fs.output_dir
        /\ fs.images = {}

(* C6: ocr_used in the result is true iff at least one page was classified
   needs-ocr, whatever the outcome of rasterization and of each OCR task. *)
C6_OcrUsedIff ==
    Done => (response.ocr_used <=> \E i \in PageIndices : Len(DirectOf(i)) < 20)

C6_Witness ==
    /\ Done
    /\ response.ocr_used
    /\ Cardinality(NeedsOcrPages) = 1
    /\ \A f \in DOMAIN futures : futures[f].outcome.kind # "completed"
    /\ \E i \in PageIndices : Sufficient(i)

(* C7: if rasterization as a whole fails or times out the request still
   succeeds, every needs-ocr page gets "[NO IMAGE AVAILABLE FOR OCR]", no OCR
   task is started, and every sufficient page keeps its direct text. *)
C7_RasterFailureDegrades ==
    RasterFailed =>
        /\ pc # "raised"
        /\ futures = << >>
        /\ ocr_started = {}
        /\ Done =>
            /\ response.status = "success"
            /\ \A i \in PageIndices :
                response.pages[i + 1].text =
                    IF Sufficient(i) THEN DirectOf(i) ELSE "[NO IMAGE AVAILABLE FOR OCR]"

C7_Witness ==
    /\ Done
    /\ RasterFailed
    /\ raster_outcome.written # {}
    /\ 0 \in NeedsOcrPages
    /\ \E i \in PageIndices : Sufficient(i)

(* C8: if the OCR task of one page exceeds its time budget that page's final
   text is "[OCR TIMEOUT]", every other page's final text is what its own
   inputs determine, and the request still succeeds. *)
C8_TimeoutIsLocal ==
    /\ \A f \in DOMAIN futures :
        futures[f].outcome.kind = "TimeoutExpired" => pc # "raised"
    /\ Done =>
        \A f \in DOMAIN futures :
            futures[f].outcome.kind = "TimeoutExpired" =>
                /\ response.status = "success"
                /\ response.pages[futures[f].page_index + 1].text = "[OCR TIMEOUT]"
                /\ \A j \in PageIndices \ {futures[f].page_index} :
                    response.pages[j + 1].text = ExpectedText(j)

C8_Witness ==
    /\ Done
    /\ \E f, g \in DOMAIN futures :
        /\ futures[f].outcome.kind = "TimeoutExpired"
        /\ futures[g].outcome.kind = "completed"
        /\ StartsWith(response.pages[futures[g].page_index + 1].text, "Hb")
    /\ \E i \in PageIndices : Sufficient(i)

(* C9: for every outcome of invoking the OCR engine ocr_image returns a
   string and never raises: "[OCR TIMEOUT]" on timeout, else "[OCR ERROR]
   {cause}" when the invocation raised, else "[OCR EMPTY]" when the output is
   empty or whitespace only, else the trimmed output. *)
C9_OcrImagePolicy ==
    \A f \in DOMAIN futures :
        futures[f].state = "finished" =>
            LET o == futures[f].outcome
            IN  /\ ~futures[f].raised
                /\ futures[f].result =
                     IF o.kind = "TimeoutExpired" THEN "[OCR TIMEOUT]"
                     ELSE IF o.kind # "completed" THEN "[OCR ERROR] " \o o.cause
                     ELSE IF Blank(o.stdout) THEN "[OCR EMPTY]"
                     ELSE TrimmedText(o.stdout)

C9_Witness ==
    \E f, g \in DOMAIN futures :
        /\ futures[f].state = "finished"
        /\ futures[f].outcome.kind = "completed"
        /\ Len(futures[f].outcome.stdout) > 0
        /\ futures[f].result = "[OCR EMPTY]"
        /\ futures[g].state = "finished"
        /\ StartsWith(futures[g].result, "[OCR ERROR] ")

(* C10: the classification depends on the trimmed direct text length alone:
   length 19 or less (including empty) is needs-ocr, length 20 or more is
   sufficient. *)
C10_Threshold ==
    pc \in {"submit", "collect", "respond", "done"} =>
        \A i \in PageIndices :
            LET classified == \E k \in 1..Len(pages_needing_ocr) : pages_needing_ocr[k] = i
                page == file.content.pages[i + 1]
                length == IF page.kind = "str" THEN TrimmedLen(page.text) ELSE 0
            IN  /\ length <= 19 => classified
                /\ length >= 20 => ~classified

C10_Witness ==
    /\ pc = "submit"
    /\ \E i, j, k \in PageIndices :
        /\ Len(DirectOf(i)) = 19
        /\ Len(DirectOf(j)) = 20
        /\ Len(DirectOf(k)) = 0
        /\ pages_needing_ocr = << i, k >>

(* C11: the final text of every page classified sufficient equals its
   direct-extracted text: rasterization, OCR scheduling and result collection
   never write the slot of a sufficient page, in any completion order and
   under any failure of other pages. *)
C11_SufficientUntouched ==
    pc \in {"rasterize", "classify", "submit", "collect", "respond", "done"} =>
        \A i \in PageIndices :
            Sufficient(i) =>
                /\ extracted_texts[i] = DirectOf(i)
                /\ \A w \in writes : w.idx # i
                /\ Done => response.pages[i + 1].text = DirectOf(i)

C11_Witness ==
    /\ Done
    /\ Len(file.content.pages) = 3
    /\ Sufficient(0) /\ ~Sufficient(1) /\ Sufficient(2)
    /\ response.ocr_used
    /\ Len(futures) = 1
    /\ futures[1].page_index = 1
    /\ futures[1].outcome.kind = "raise"

SubmissionOver == pc \in {"collect", "respond", "done"}

(* C12: the pages for which an OCR task is submitted are exactly the pages
   classified needs-ocr that have a rasterized image, one task per such page;
   no task is submitted for a sufficient page or a page with no image, and a
   needs-ocr page with no image gets "[NO IMAGE AVAILABLE FOR OCR]". *)
C12_TasksExact ==
    /\ \A f \in DOMAIN futures :
        /\ futures[f].page_index \in NeedsOcrPages
        /\ HasImage(futures[f].page_index)
        /\ \A g \in DOMAIN futures : g # f => futures[g].page_index # futures[f].page_index
    /\ SubmissionOver =>
        \A i \in NeedsOcrPages :
            IF HasImage(i)
            THEN \E f \in DOMAIN futures : futures[f].page_index = i
            ELSE extracted_texts[i] = "[NO IMAGE AVAILABLE FOR OCR]"

C12_Witness ==
    /\ pc = "collect"
    /\ Len(futures) >= 1
    /\ \E i \in NeedsOcrPages : ~HasImage(i)
    /\ \E i \in PageIndices : Sufficient(i) /\ HasImage(i)

(* C13: every request eventually ends, with a request-level rejection or
   with a complete result, and the result is built only after every submitted
   OCR task has completed. *)
C13_Terminates ==
    /\ <>(\/ pc = "done" /\ response.kind = "result"
          \/ pc = "raised" /\ response.kind = "HTTPException")
    /\ [](pc \in {"respond", "done"} =>
            \A f \in DOMAIN futures : futures[f].state = "finished" /\ f \in collected)

C13_Witness ==
    /\ Done
    /\ Len(futures) >= 2
    /\ \E f \in DOMAIN futures : futures[f].outcome.kind = "TimeoutExpired"
    /\ overtaken # {}

\* the upload is named as a PDF, in any letter case
NamedPdf == endswith(lower(file.filename), ".pdf")

(* C14: if the upload is not named as a PDF or its container cannot be
   opened the request is rejected with an HTTP error (400, resp. 500): no
   result is returned, and no rasterization and no OCR task is ever started. *)
C14_Rejected ==
    (~NamedPdf \/ ~file.content.readable) =>
        /\ pc \in {"validate", "save", "open", "raised"}
        /\ response.kind # "result"
        /\ raster_calls = 0
        /\ raster_outcome.kind = "none"
        /\ futures = << >>
        /\ ocr_started = {}
        /\ pc = "raised" =>
            /\ response.kind = "HTTPException"
            /\ response.status_code = IF NamedPdf THEN 500 ELSE 400

C14_Witness ==
    /\ pc = "raised"
    /\ NamedPdf
    /\ ~file.content.readable
    /\ fs.pdf
    /\ response.status_code = 500

(* C15: at every moment at most 4 OCR tasks are running, however many pages
   need OCR; a task is started only while fewer than 4 are running, and every
   submitted task is eventually run. *)
C15_PoolBounded ==
    /\ [](Cardinality(Running) <= 4)
    /\ [][\A f \in DOMAIN futures :
            (f \in Pending /\ futures'[f].state = "running") => Cardinality(Running) < 4]_vars
    /\ \A k \in 1..PoolPages :
            (Len(futures) >= k) ~>
                (Len(futures) >= k /\ futures[k].state \in {"running", "finished"})

\* four tasks running while a fifth, already submitted, waits
C15_Witness ==
    /\ Cardinality(NeedsOcrPages) > 4
    /\ Cardinality(Running) = 4
    /\ Pending # {}

(* C16: in the OCR phase every submitted task is bound to a page index of
   its own, its result is written only to that index, and every slot written
   in the phase is written exactly once, so that no slot receives writes on
   behalf of two tasks. *)
C16_SlotsWrittenOnce ==
    /\ \A f, g \in DOMAIN futures :
            f # g => futures[f].page_index # futures[g].page_index
    /\ \A w \in writes :
        /\ w.nth = 1
        /\ w.by # 0 => w.by \in collected /\ w.idx = futures[w.by].page_index
        /\ w.by = 0 => \A f \in DOMAIN futures : futures[f].page_index # w.idx
    /\ \A w, v \in writes : w.idx = v.idx => w = v
    /\ \A f \in collected : \E w \in writes : w.by = f
    /\ pc \in {"respond", "done"} => collected = DOMAIN futures

C16_Witness ==
    /\ Done
    /\ Len(futures) >= 2
    /\ \E f \in overtaken : futures[f].page_index = 0
    /\ \E w \in writes : w.by = 0
    /\ Cardinality(writes) = 3

(* C17: for every opened document the rasterization tool is invoked exactly
   once for the whole document, never once per page and never again, and the
   invocation has ended before the first OCR task is submitted or started. *)
C17_RasterizedOnce ==
    /\ raster_calls <= 1
    /\ pc \in {"validate", "save", "open", "extract", "rasterize"} => raster_calls = 0
    /\ pc \in {"classify", "submit", "collect", "respond", "done"} =>
        /\ raster_calls = 1
        /\ raster_outcome.kind \in {"completed", "CalledProcessError", "TimeoutExpired"}
    /\ (futures # << >> \/ ocr_started # {}) =>
        /\ raster_calls = 1
        /\ raster_outcome.kind = "completed"

C17_Witness ==
    /\ Done
    /\ Len(file.content.pages) = 3
    /\ raster_calls = 1
    /\ Cardinality(ocr_started) = 2

\* the page numbers pdftoppm wrote, in ascending order
RECURSIVE Ascending(_)
Ascending(numbers) ==
    IF numbers = {} THEN << >>
    ELSE LET least == CHOOSE n \in numbers : \A m \in numbers : n <= m
         IN  << least >> \o Ascending(numbers \ {least})

(* C18: convert_pdf_to_images never raises; it returns an empty sequence when
   the tool exits non-zero, when the batch times out and when the output has
   an unexpected layout (no file name carrying a page number), and on success
   the images ordered by page number. *)
C18_SoftFailure ==
    raster_calls = 1 =>
        /\ ~(pc = "raised" /\ response.kind = "Exception")
        /\ RasterFailed => image_paths = << >>
        /\ (raster_outcome.kind = "completed" /\ raster_outcome.written = {}) =>
                image_paths = << >>
        /\ (raster_outcome.kind = "completed" /\ raster_outcome.extra = {}) =>
                image_paths = [k \in 1..Cardinality(raster_outcome.written) |->
                                 ImagePath(Ascending(raster_outcome.written)[k])]

\* direct extraction raises on page i
ExtractionFails(i) == file.content.pages[i + 1].kind = "raise"

(* C19: a direct-extraction error on one page never aborts the request and
   never affects other pages: the failing page has empty direct text, is
   classified needs-ocr, and every other page, later ones included, is
   extracted and ends with the text its own inputs determine. *)
C19_PageErrorIsLocal ==
    \A i \in PageIndices :
        (NamedPdf /\ ExtractionFails(i)) =>
            /\ pc # "raised"
            /\ pc \in {"rasterize", "classify"} =>
                /\ extracted_texts[i] = ""
                /\ \A j \in PageIndices \ {i} : extracted_texts[j] = DirectOf(j)
            /\ pc \in {"submit", "collect", "respond", "done"} =>
                \E k \in 1..Len(pages_needing_ocr) : pages_needing_ocr[k] = i
            /\ Done =>
                /\ response.kind = "result"
                /\ response.page_count = Len(file.content.pages)
                /\ \A j \in PageIndices \ {i} :
                        response.pages[j + 1].text = ExpectedText(j)

C19_Witness ==
    /\ Done
    /\ Len(file.content.pages) = 3
    /\ ExtractionFails(0)
    /\ Sufficient(1)
    /\ ~Sufficient(2) /\ ~ExtractionFails(2)
    /\ response.pages[2].text = DirectOf(1)
    /\ response.pages[1].text = "[OCR TIMEOUT]"

\* the page numbers of the images pdftoppm left
ImageNumbers == IF raster_outcome.kind = "completed" THEN raster_outcome.written ELSE {}

(* C20: images are bound to pages by the number in the image name, not by
   their position: the OCR task of page index i reads the image numbered i+1
   and no other, and an image whose number lies outside 1..page_count gets no
   OCR task and causes no write to the result array. *)
C20_BoundByNumber ==
    /\ pc \in {"submit", "collect", "respond", "done"} =>
        /\ DOMAIN page_to_image = { n - 1 : n \in ImageNumbers } \cap PageIndices
        /\ \A i \in DOMAIN page_to_image : page_to_image[i] = ImagePath(i + 1)
    /\ \A f \in DOMAIN futures :
        /\ futures[f].page_index \in PageIndices
        /\ futures[f].page_index + 1 \in ImageNumbers
        /\ futures[f].img = ImagePath(futures[f].page_index + 1)
    /\ \A w \in writes : w.idx \in PageIndices
    /\ \A n \in ImageNumbers :
        n > Len(file.content.pages) =>
            /\ \A f \in DOMAIN futures : futures[f].img # ImagePath(n)
            /\ Len(futures) <= Cardinality(ImageNumbers \ {n})

\* only page 2 was rasterized: its image is first in the sequence and is read
\* by the task of page index 1, while page index 0 has no image
C20_Witness ==
    /\ Done
    /\ ImageNumbers = {2}
    /\ image_paths = << ImagePath(2) >>
    /\ Len(futures) = 1
    /\ futures[1].page_index = 1
    /\ futures[1].img = ImagePath(2)
    /\ response.pages[1].text = "[NO IMAGE AVAILABLE FOR OCR]"

====
